---- MODULE Spec2Model ----
(***************************************************************************)
(* Model of Yank/pipeline.py: find_components(topology, ligand_dsl,        *)
(* solvent_resnames=_SOLVENT_RESNAMES).  One call is executed statement by *)
(* statement; the same call can then be repeated.                          *)
(***************************************************************************)
EXTENDS Naturals, Sequences, FiniteSets, TLC

VARIABLES
    _SOLVENT_RESNAMES,  \* the module-level set of solvent and ion names
    topology,           \* argument: [kind, residues]
    ligand_dsl,         \* argument: the selection query
    solvent_given,      \* TRUE iff the caller passed solvent_resnames
    solvent_resnames,   \* the parameter as bound for this call
    mdtraj_top,         \* local: the topology in mdtraj form
    atom_indices,       \* local: the mapping being built
    pc,                 \* position in the body of find_components
    returned,           \* the mapping handed back by the current call
    raised,             \* the exception that ended the current call
    calls,              \* number of calls started so far
    last                \* what the previous call returned

vars == << _SOLVENT_RESNAMES, topology, ligand_dsl, solvent_given, solvent_resnames,
           mdtraj_top, atom_indices, pc, returned, raised, calls, last >>

-----------------------------------------------------------------------------
\* Bounds of the model.
MaxResidues == 2
MaxAtomsPerResidue == 2
MaxCalls == 2

\* Residue names the modelled topologies draw from: a water of the static set,
\* a lower-case spelling of it, a documented water name and a ligand name.
ResidueNames == {"HOH", "hoh", "WAT", "LIG"}

\* The value the docstring documents for solvent_resnames.
DocumentedDefault == {"WAT", "TIP", "HOH"}

\* Values a caller passes for solvent_resnames.
PassedSolventResnames == {DocumentedDefault, {}}

-----------------------------------------------------------------------------
\* _SOLVENT_RESNAMES as the module defines it.
SolventResnamesLiteral ==
  {
    "118", "119", "1AL", "1CU", "2FK", "2HP", "2OF", "3CO", "3MT", "3NI", "3OF", "4MO",
    "543", "6MO", "ACT", "AG", "AL", "ALF", "ATH", "AU", "AU3", "AUC", "AZI", "Ag",
    "BA", "BAR", "BCT", "BEF", "BF4", "BO4", "BR", "BS3", "BSY", "Be", "CA", "CA+2",
    "Ca+2", "CAC", "CAD", "CAL", "CD", "CD1", "CD3", "CD5", "CE", "CES", "CHT", "CL",
    "CL-", "CLA", "Cl-", "CO", "CO3", "CO5", "CON", "CR", "CS", "CSB", "CU", "CU1",
    "CU3", "CUA", "CUZ", "CYN", "Cl-", "Cr", "DME", "DMI", "DSC", "DTI", "DY", "E4N",
    "EDR", "EMC", "ER3", "EU", "EU3", "F", "FE", "FE2", "FPO", "GA", "GD3", "GEP",
    "HAI", "HG", "HGC", "HOH", "IN", "IOD", "ION", "IR", "IR3", "IRI", "IUM", "K",
    "K+", "KO4", "LA", "LCO", "LCP", "LI", "LIT", "LU", "MAC", "MG", "MH2", "MH3",
    "MLI", "MMC", "MN", "MN3", "MN5", "MN6", "MO1", "MO2", "MO3", "MO4", "MO5", "MO6",
    "MOO", "MOS", "MOW", "MW1", "MW2", "MW3", "NA", "NA+2", "NA2", "NA5", "NA6", "NAO",
    "NAW", "Na+2", "NET", "NH4", "NI", "NI1", "NI2", "NI3", "NO2", "NO3", "NRU", "Na+",
    "O4M", "OAA", "OC1", "OC2", "OC3", "OC4", "OC5", "OC6", "OC7", "OC8", "OCL", "OCM",
    "OCN", "OCO", "OF1", "OF2", "OF3", "OH", "OS", "OS4", "OXL", "PB", "PBM", "PD",
    "PER", "PI", "PO3", "PO4", "POT", "PR", "PT", "PT4", "PTN", "RB", "RH3", "RHD",
    "RU", "RUB", "Ra", "SB", "SCN", "SE4", "SEK", "SM", "SMO", "SO3", "SO4", "SOD",
    "SR", "Sm", "Sn", "T1A", "TB", "TBA", "TCN", "TEA", "THE", "TL", "TMA", "TRA",
    "UNX", "V", "V2+", "VN3", "VO4", "W", "WO5", "Y1", "YB", "YB2", "YH", "YT3", "ZN",
    "ZN2", "ZN3", "ZNA", "ZNO", "ZO3"
  }

\* ------------------------------------------------------------ topologies
Residue == [name : ResidueNames, natoms : 1..MaxAtomsPerResidue]

ResidueSeqs == UNION {[1..n -> Residue] : n \in 1..MaxResidues}

TopologyKinds == {"mdtraj", "openmm", "other"}

\* An object of another type has no residues this code can read.
Topologies ==
    [kind : {"mdtraj", "openmm"}, residues : ResidueSeqs]
    \cup {[kind |-> "other", residues |-> << >>]}

\* Topology.from_openmm: a new topology with a residue per residue of the
\* argument, same name, same atoms, same order; TypeError for anything that
\* is not an openmm topology.
RECURSIVE CopyResidues(_)
CopyResidues(rs) ==
    IF rs = << >> THEN << >>
    ELSE << [name |-> Head(rs).name, natoms |-> Head(rs).natoms] >>
         \o CopyResidues(Tail(rs))

from_openmm(top) == CopyResidues(top.residues)

\* mdtraj_top.atoms: the atoms residue by residue, numbered from 0.
RECURSIVE AtomsFrom(_, _, _)
AtomsFrom(rs, resid, first) ==
    IF rs = << >> THEN << >>
    ELSE [k \in 1..Head(rs).natoms |->
             [index |-> first + k - 1, resname |-> Head(rs).name, resid |-> resid]]
         \o AtomsFrom(Tail(rs), resid + 1, first + Head(rs).natoms)

atoms(top) == AtomsFrom(top, 0, 0)

\* ------------------------------------------------------------ selection
Queries ==
    {[kind |-> "all"], [kind |-> "none"], [kind |-> "invalid"]}
    \cup {[kind |-> "resname", name |-> n] : n \in {"LIG"}}
    \cup {[kind |-> "resid", resid |-> r] : r \in {0}}

ValidQuery(q) == q.kind # "invalid"

Matches(q, atom) ==
    CASE q.kind = "all" -> TRUE
      [] q.kind = "none" -> FALSE
      [] q.kind = "resname" -> atom.resname = q.name
      [] q.kind = "resid" -> atom.resid = q.resid

\* [atom.index for atom in kept]
Indices(kept) == [i \in DOMAIN kept |-> kept[i].index]

\* mdtraj_top.select(dsl).tolist(): the indices of the matching atoms, in
\* atom order.
select(top, q) ==
    LET hit(a) == Matches(q, a) IN Indices(SelectSeq(atoms(top), hit))

ToSet(s) == {s[i] : i \in DOMAIN s}

\* ------------------------------------------------------------ the body
\* Upper-case spelling of a residue name of the model.
Upper(name) == IF name = "hoh" THEN "HOH" ELSE name

\* A membership test that ignores letter case.
IsSolventName_IgnoreCase(name, names) == \E n \in names : Upper(n) = Upper(name)

\* atom.residue.name in solvent_resnames
IsSolventName(name, names) == name \in names

SolventIndices(top, names) ==
    LET hit(a) == IsSolventName(a.resname, names) IN Indices(SelectSeq(atoms(top), hit))

\* A not_receptor_set that forgets the solvent.
NotReceptorSet_OnlyLigand(ligand, solvent) == ToSet(ligand)

NotReceptorSet(ligand, solvent) == ToSet(ligand \o solvent)

\* A receptor filter that tests the residue's index instead of the atom's.
ReceptorIndices_ResidueIndex(top, not_receptor_set) ==
    LET hit(a) == a.resid \notin not_receptor_set IN Indices(SelectSeq(atoms(top), hit))

ReceptorIndices(top, not_receptor_set) ==
    LET hit(a) == a.index \notin not_receptor_set IN Indices(SelectSeq(atoms(top), hit))

\* A complex that lists the ligand first.
ComplexIndices_LigandFirst(receptor, ligand) == ligand \o receptor

ComplexIndices(receptor, ligand) == receptor \o ligand

EmptyDict == [k \in {} |-> << >>]

Store(d, key, value) == [k \in (DOMAIN d) \cup {key} |-> IF k = key THEN value ELSE d[k]]

NoTop == << >>

Init ==
    /\ _SOLVENT_RESNAMES = SolventResnamesLiteral
    /\ topology \in Topologies
    /\ ligand_dsl \in Queries
    /\ solvent_given \in BOOLEAN
    /\ solvent_resnames \in (IF solvent_given THEN PassedSolventResnames
                                             ELSE {SolventResnamesLiteral})
    /\ mdtraj_top = NoTop
    /\ atom_indices = EmptyDict
    /\ pc = "call"
    /\ returned = EmptyDict
    /\ raised = "none"
    /\ calls = 1
    /\ last = EmptyDict

Frame == UNCHANGED << _SOLVENT_RESNAMES, topology, ligand_dsl, solvent_given,
                      solvent_resnames, calls, last >>

\* atom_indices = {}
Begin ==
    /\ pc = "call"
    /\ atom_indices' = EmptyDict
    /\ pc' = "convert"
    /\ UNCHANGED << mdtraj_top, returned, raised >>
    /\ Frame

\* isinstance(topology, mdtraj.Topology): use it as it is
UseMdtraj ==
    /\ pc = "convert"
    /\ topology.kind = "mdtraj"
    /\ mdtraj_top' = topology.residues
    /\ pc' = "ligand"
    /\ UNCHANGED << atom_indices, returned, raised >>
    /\ Frame

\* A conversion that turns the caller's object into an mdtraj topology in place.
ConvertOpenmm_InPlace ==
    /\ pc = "convert"
    /\ topology.kind = "openmm"
    /\ mdtraj_top' = from_openmm(topology)
    /\ topology' = [topology EXCEPT !.kind = "mdtraj"]
    /\ pc' = "ligand"
    /\ UNCHANGED << atom_indices, returned, raised >>
    /\ UNCHANGED << _SOLVENT_RESNAMES, ligand_dsl, solvent_given, solvent_resnames,
                    calls, last >>

\* else: mdtraj.Topology.from_openmm(topology)
ConvertOpenmm ==
    /\ pc = "convert"
    /\ topology.kind = "openmm"
    /\ mdtraj_top' = from_openmm(topology)
    /\ pc' = "ligand"
    /\ UNCHANGED << atom_indices, returned, raised >>
    /\ Frame

\* A body that duck-types whatever it is given instead of converting it.
ConvertRaises_DuckTyped ==
    /\ pc = "convert"
    /\ topology.kind \notin {"mdtraj", "openmm"}
    /\ mdtraj_top' = topology.residues
    /\ pc' = "ligand"
    /\ UNCHANGED << atom_indices, returned, raised >>
    /\ Frame

\* from_openmm raises for any other type; nothing catches it
ConvertRaises ==
    /\ pc = "convert"
    /\ topology.kind \notin {"mdtraj", "openmm"}
    /\ raised' = "TypeError"
    /\ pc' = "raised"
    /\ UNCHANGED << mdtraj_top, atom_indices, returned >>
    /\ Frame

\* atom_indices['ligand'] = mdtraj_top.select(ligand_dsl).tolist()
DetermineLigand ==
    /\ pc = "ligand"
    /\ ValidQuery(ligand_dsl)
    /\ atom_indices' = Store(atom_indices, "ligand", select(mdtraj_top, ligand_dsl))
    /\ pc' = "solvent"
    /\ UNCHANGED << mdtraj_top, returned, raised >>
    /\ Frame

\* select raises for a query it cannot parse; nothing catches it
SelectRaises ==
    /\ pc = "ligand"
    /\ ~ValidQuery(ligand_dsl)
    /\ raised' = "ValueError"
    /\ pc' = "raised"
    /\ UNCHANGED << mdtraj_top, atom_indices, returned >>
    /\ Frame

\* atom_indices['solvent'] = [atom.index for atom in mdtraj_top.atoms
\*                            if atom.residue.name in solvent_resnames]
DetermineSolvent ==
    /\ pc = "solvent"
    /\ atom_indices' = Store(atom_indices, "solvent",
                             SolventIndices(mdtraj_top, solvent_resnames))
    /\ pc' = "receptor"
    /\ UNCHANGED << mdtraj_top, returned, raised >>
    /\ Frame

\* not_receptor_set = frozenset(ligand + solvent); atom_indices['receptor'] = ...
DetermineReceptor ==
    /\ pc = "receptor"
    /\ atom_indices' = Store(atom_indices, "receptor",
           ReceptorIndices(mdtraj_top,
               NotReceptorSet(atom_indices["ligand"], atom_indices["solvent"])))
    /\ pc' = "complex"
    /\ UNCHANGED << mdtraj_top, returned, raised >>
    /\ Frame

\* atom_indices['complex'] = atom_indices['receptor'] + atom_indices['ligand']
DetermineComplex ==
    /\ pc = "complex"
    /\ atom_indices' = Store(atom_indices, "complex",
           ComplexIndices(atom_indices["receptor"], atom_indices["ligand"]))
    /\ pc' = "return"
    /\ UNCHANGED << mdtraj_top, returned, raised >>
    /\ Frame

\* return atom_indices
Return ==
    /\ pc = "return"
    /\ returned' = atom_indices
    /\ pc' = "done"
    /\ UNCHANGED << mdtraj_top, atom_indices, raised >>
    /\ Frame

\* The caller calls find_components again with the same arguments; an omitted
\* solvent_resnames is bound to the module-level set again.
CallAgain ==
    /\ pc \in {"done", "raised"}
    /\ calls < MaxCalls
    /\ calls' = calls + 1
    /\ last' = returned
    /\ solvent_resnames' = IF solvent_given THEN solvent_resnames ELSE _SOLVENT_RESNAMES
    /\ mdtraj_top' = NoTop
    /\ atom_indices' = EmptyDict
    /\ returned' = EmptyDict
    /\ raised' = "none"
    /\ pc' = "call"
    /\ UNCHANGED << _SOLVENT_RESNAMES, topology, ligand_dsl, solvent_given >>

Next ==
    \/ Begin
    \/ UseMdtraj
    \/ ConvertOpenmm
    \/ ConvertRaises
    \/ DetermineLigand
    \/ SelectRaises
    \/ DetermineSolvent
    \/ DetermineReceptor
    \/ DetermineComplex
    \/ Return
    \/ CallAgain

Spec == Init /\ [][Next]_vars

-----------------------------------------------------------------------------
\* Vocabulary of the properties.

Returned == pc = "done"

T == atoms(topology.residues)

AllIndices == {T[i].index : i \in DOMAIN T}

ligand == ToSet(returned["ligand"])
solvent == ToSet(returned["solvent"])
receptor == ToSet(returned["receptor"])

\* Atoms of T the query matches, and atoms of T named as solvent.
Selected == {T[i].index : i \in {j \in DOMAIN T : Matches(ligand_dsl, T[j])}}

NamedIn(names) == {T[i].index : i \in {j \in DOMAIN T : T[j].resname \in names}}

Increasing(s) == \A i, j \in DOMAIN s : i < j => s[i] < s[j]

\* ----------------------------------------------------------------- C1
\* C1 as stated: the returned ligand, solvent and receptor are pairwise
\* disjoint for every topology and every valid query.
C1_PairwiseDisjoint ==
    Returned =>
        /\ ligand \cap solvent = {}
        /\ ligand \cap receptor = {}
        /\ solvent \cap receptor = {}

\* C1 amended: receptor is disjoint from ligand and from solvent; ligand and
\* solvent share exactly the atoms the query selects in residues whose name is
\* in the solvent name set of the call, so they are disjoint iff there is none.
C1_ReceptorDisjoint ==
    Returned =>
        /\ ligand \cap receptor = {}
        /\ solvent \cap receptor = {}
        /\ ligand \cap solvent = Selected \cap NamedIn(solvent_resnames)

C1_Witness ==
    /\ Returned
    /\ ligand \cap solvent # {}
    /\ receptor # {}

\* ----------------------------------------------------------------- C2
\* C2: the union of receptor, ligand and solvent is exactly the set of atom
\* indices of the topology.
C2_UnionCoversTopology ==
    Returned => receptor \cup ligand \cup solvent = AllIndices

C2_Witness ==
    /\ Returned
    /\ receptor # {} /\ ligand # {} /\ solvent # {}
    /\ Cardinality(AllIndices) >= 3

\* ----------------------------------------------------------------- C3
\* C3: complex is receptor followed by ligand, the ligand being the list the
\* query evaluator returned, unsorted and with nothing removed.
C3_ComplexIsConcatenation ==
    Returned =>
        /\ returned["ligand"] = select(topology.residues, ligand_dsl)
        /\ Len(returned["complex"]) = Len(returned["receptor"]) + Len(returned["ligand"])
        /\ \A i \in 1..Len(returned["receptor"]) :
               returned["complex"][i] = returned["receptor"][i]
        /\ \A i \in 1..Len(returned["ligand"]) :
               returned["complex"][Len(returned["receptor"]) + i] = returned["ligand"][i]

\* a ligand atom precedes a receptor atom in the topology, so a sorted complex
\* would differ
C3_Witness ==
    /\ Returned
    /\ \E l \in ligand, r \in receptor : l < r
    /\ ~Increasing(returned["complex"])

\* ----------------------------------------------------------------- C4
\* C4 as stated: solvent is exactly the atoms whose residue name is a member
\* of the static solvent/ion name set.
C4_SolventIsStaticSet ==
    Returned => solvent = NamedIn(_SOLVENT_RESNAMES)

\* C4 amended: solvent is exactly the atoms whose residue name is an exact,
\* case-sensitive member of the solvent_resnames of the call (the static set
\* when the argument is omitted), whether or not the query selected them.
C4_SolventIsNamedSet ==
    Returned =>
        /\ solvent = NamedIn(solvent_resnames)
        /\ Increasing(returned["solvent"])

\* a name of the set and its lower-case spelling in one topology, the solvent
\* atom selected by the query too
C4_Witness ==
    /\ Returned
    /\ ~solvent_given
    /\ \E i, j \in DOMAIN T :
          /\ T[i].resname = "HOH" /\ T[j].resname = "hoh"
          /\ T[i].index \in solvent \cap ligand
          /\ T[j].index \notin solvent

\* ----------------------------------------------------------------- C5
\* C5: receptor is the atoms of the topology in neither ligand nor solvent,
\* each once, in topology atom order.
C5_ReceptorIsRest ==
    Returned =>
        /\ receptor = AllIndices \ (ligand \cup solvent)
        /\ Increasing(returned["receptor"])

C5_Witness ==
    /\ Returned
    /\ Len(returned["receptor"]) >= 2
    /\ ligand # {} /\ solvent # {}

C8_ErrorsPropagate ==
    /\ topology.kind = "other" =>
          /\ pc \in {"call", "convert", "raised"}
          /\ DOMAIN atom_indices = {}
          /\ pc = "raised" => raised = "TypeError"
    /\ (topology.kind # "other" /\ ~ValidQuery(ligand_dsl)) =>
          /\ pc \in {"call", "convert", "ligand", "raised"}
          /\ DOMAIN atom_indices = {}
          /\ pc = "raised" => raised = "ValueError"
    /\ pc = "raised" => DOMAIN returned = {}
    /\ pc # "raised" => raised = "none"

C8_Witness ==
    /\ pc = "raised"
    /\ topology.kind = "other"
    /\ raised = "TypeError"
    /\ calls = 2

\* ----------------------------------------------------------------- C9
\* C9: no step of a call changes the topology, the query or the static name
\* set, a later call leaves the earlier result as it was, and a second call
\* with the same arguments returns a mapping equal to the first.
C9_NoSideEffects ==
    /\ [][/\ topology' = topology
          /\ ligand_dsl' = ligand_dsl
          /\ _SOLVENT_RESNAMES' = _SOLVENT_RESNAMES
          /\ (pc # "call" /\ pc' # "call") => last' = last]_vars
    /\ [](_SOLVENT_RESNAMES = SolventResnamesLiteral)
    /\ []((Returned /\ calls >= 2) => returned = last)

C9_Witness ==
    /\ Returned
    /\ calls = 2
    /\ topology.kind = "openmm"
    /\ returned = last
    /\ ligand # {} /\ solvent # {} /\ receptor # {}

\* ----------------------------------------------------------------- C10
\* C10: without the solvent_resnames argument, every atom of a residue named
\* 'WAT', 'TIP' or 'HOH' is in solvent and not in receptor.
C10_DocumentedDefault ==
    (Returned /\ ~solvent_given) =>
        /\ NamedIn(DocumentedDefault) \subseteq solvent
        /\ NamedIn(DocumentedDefault) \cap receptor = {}

====
